---- MODULE Spec2Model ----
(***************************************************************************)
(* Supplier Vault (src/server.js): the login rate limiter, the session     *)
(* registry and auth gate, and the supplier, delivery-history and          *)
(* announcement handlers over the relational store.                        *)
(*                                                                         *)
(* A handler runs synchronously up to its next `await pool.query(...)`;    *)
(* one action of the model is the completion of one store query together   *)
(* with the continuation of the handler up to its next await (or its       *)
(* response).  Handlers of different requests interleave at the awaits.    *)
(* login and logout contain no await and are one action each.              *)
(***************************************************************************)
EXTENDS Integers, Sequences, FiniteSets, TLC

\* ------------------------------------------------------------------ bounds
\* The clock advances in steps of TickMs milliseconds, MaxTicks times.
TickMs == 450000
MaxTicks == 6
\* Tokens minted per behaviour (crypto.randomBytes is modelled as a fresh value).
MaxTokens == 2
\* Clock steps taken while the store handlers run.
MaxStoreTicks == 1
\* Rows the suppliers table is ever given (ids 1 .. MaxSuppliers).
MaxSuppliers == 2
\* Rows the delivery_history table is ever given.
MaxHistory == 2
\* Rows the announcements table is ever given.
MaxAnnouncements == 1

\* --------------------------------------------------------- program constants
MAX_ATTEMPTS == 5
WINDOW_MS == 15 * 60 * 1000
\* a lockout shorter than the counting window
LOCKOUT_MS_Short == WINDOW_MS \div 3
LOCKOUT_MS == 30 * 60 * 1000
ADMIN_PASSWORD == "changeme123"

\* ------------------------------------------------------------------ inputs
IPs == {"ip1", "ip2"}
\* password of a login body: absent (NoPassword), empty, wrong, right
NoPassword == "undefined"
Passwords == {"", "wrong", ADMIN_PASSWORD}
\* x-admin-token header: 0 is a missing header, n > 0 a token value
NoToken == 0
TokenValues == 0 .. MaxTokens
Procs == {"p1", "p2"}

VARIABLES
  now,            \* Date.now() / NOW(), in ms
  loginAttempts,  \* Map ip -> {count, firstAttempt, lockedUntil}
  activeSessions, \* Set of tokens
  nextToken,      \* the next value crypto.randomBytes returns
  suppliers,      \* table suppliers: id -> row
  nextSupplierId, \* its SERIAL sequence
  delivery_history, \* table delivery_history: id -> row
  nextHistoryId,  \* its SERIAL sequence
  archivedOf,     \* history variable: for every history row ever inserted, the supplier id it was copied from
  announcements,  \* table announcements: id -> row
  nextAnnouncementId, \* its SERIAL sequence
  req             \* per request slot: where its handler stands, and its last response

authVars == <<loginAttempts, activeSessions, nextToken>>
annVars == <<announcements, nextAnnouncementId>>
dbVars == <<suppliers, nextSupplierId, delivery_history, nextHistoryId, archivedOf,
            announcements, nextAnnouncementId>>
vars == <<now, loginAttempts, activeSessions, nextToken, suppliers, nextSupplierId,
          delivery_history, nextHistoryId, archivedOf, announcements,
          nextAnnouncementId, req>>

\* ------------------------------------------------------------- JS / SQL values
\* A JSON body field or a column value: undefined (absent), null, or a string
\* (a sequence of characters).
Undefined == [t |-> "undefined", v |-> <<>>]
Null == [t |-> "null", v |-> <<>>]
Str(s) == [t |-> "string", v |-> s]

\* !!x for these values
Truthy(x) == x.t = "string" /\ x.v # <<>>
\* a ?? b
Coalesce(a, b) == IF a.t \in {"undefined", "null"} THEN b ELSE a
\* x || null
OrNull(x) == IF Truthy(x) THEN x ELSE Null
\* destructuring default: { x = d } = req.body
Default(x, d) == IF x.t = "undefined" THEN d ELSE x

\* String.prototype.trim on a sequence of characters
RECURSIVE TrimLeft(_)
TrimLeft(s) == IF s # <<>> /\ Head(s) = " " THEN TrimLeft(Tail(s)) ELSE s
RECURSIVE TrimRight(_)
TrimRight(s) ==
  IF s # <<>> /\ s[Len(s)] = " " THEN TrimRight(SubSeq(s, 1, Len(s) - 1)) ELSE s
trim(x) == Str(TrimRight(TrimLeft(x.v)))

NoBody == [name |-> Undefined, product |-> Undefined, note |-> Undefined,
           est_delivery |-> Undefined, status |-> Undefined]
NoRow == [name |-> Null, product |-> Null, status |-> Null, note |-> Null,
          est_delivery |-> Null, added_at |-> 0]

\* a POST / PATCH /api/admin/announcements body, and a row of the table
Bool(b) == [t |-> "boolean", v |-> <<b>>]
NoAnnBody == [message |-> Undefined, active |-> Undefined]
NoAnnouncement == [message |-> Null, active |-> FALSE, created_at |-> 0]

SupplierIds == 1 .. MaxSuppliers
HistoryIds == 1 .. MaxHistory
AnnouncementIds == 1 .. MaxAnnouncements

\* ---------------------------------------------------------------- requests
\* pc = "idle": no request of this slot is in flight, and op/id/status/out are
\* those of its last request.  Any other pc names the store query the handler
\* awaits.  rivals is a history variable: the slots that had a request on the
\* same supplier id in flight while this slot's request was in flight.
IdleReq == [pc |-> "idle", op |-> "none", id |-> 0, body |-> NoBody, s |-> NoRow,
            t0 |-> 0, status |-> 0, out |-> 0, rivals |-> {}]

InFlight == {q \in Procs : req[q].pc # "idle"}

\* the routes with a supplier id in their path
OnSupplier(op) == op \in {"update", "delete"}

\* A request answered before its handler awaits anything.
Answer(p, op, id, status, out) ==
  [req EXCEPT ![p] = [IdleReq EXCEPT !.op = op, !.id = id, !.status = status, !.out = out]]

\* A request whose handler issues its first query and awaits it.
Begin(p, op, pc, id, body) ==
  LET met == {q \in InFlight \ {p} :
                OnSupplier(op) /\ OnSupplier(req[q].op) /\ req[q].id = id}
  IN [q \in Procs |->
        IF q = p
        THEN [IdleReq EXCEPT !.pc = pc, !.op = op, !.id = id, !.body = body,
                             !.t0 = now, !.rivals = met]
        ELSE IF q \in met
        THEN [req[q] EXCEPT !.rivals = @ \cup {p}]
        ELSE req[q]]

\* The handler awaits its next query.
Await(p, pc) == [req EXCEPT ![p].pc = pc]

\* res.json(...) / res.status(code).json(...) after a query: the handler ends.
Finish(p, status, out) ==
  [req EXCEPT ![p] = [@ EXCEPT !.pc = "idle", !.body = NoBody, !.s = NoRow,
                               !.t0 = 0, !.status = status, !.out = out]]

\* ------------------------------------------------------------ rate limiter
Ceil(a, b) == (a + b - 1) \div b

MapGet(m, k, default) == IF k \in DOMAIN m THEN m[k] ELSE default
MapSet(m, k, v) == [x \in DOMAIN m \cup {k} |-> IF x = k THEN v ELSE m[x]]
MapDelete(m, k) == [x \in DOMAIN m \ {k} |-> m[x]]

FreshRecord(t) == [count |-> 0, firstAttempt |-> t, lockedUntil |-> 0]

\* a limiter in which an attempt during a lockout starts the lockout anew
checkRateLimitExtending(m, ip, t) ==
  LET data == MapGet(m, ip, FreshRecord(t)) IN
  IF data.lockedUntil # 0 /\ t < data.lockedUntil
  THEN [allowed |-> FALSE, minutesLeft |-> 30,
        map |-> MapSet(m, ip, [data EXCEPT !.lockedUntil = t + LOCKOUT_MS])]
  ELSE IF t - data.firstAttempt > WINDOW_MS
  THEN [allowed |-> TRUE, minutesLeft |-> 0, map |-> MapSet(m, ip, FreshRecord(t))]
  ELSE IF data.count >= MAX_ATTEMPTS
  THEN [allowed |-> FALSE, minutesLeft |-> 30,
        map |-> MapSet(m, ip, [data EXCEPT !.lockedUntil = t + LOCKOUT_MS])]
  ELSE [allowed |-> TRUE, minutesLeft |-> 0, map |-> m]

\* checkRateLimit(ip): the answer and the map it leaves
checkRateLimit(m, ip, t) ==
  LET data == MapGet(m, ip, FreshRecord(t)) IN
  IF data.lockedUntil # 0 /\ t < data.lockedUntil
  THEN [allowed |-> FALSE, minutesLeft |-> Ceil(data.lockedUntil - t, 60000), map |-> m]
  ELSE IF t - data.firstAttempt > WINDOW_MS
  THEN [allowed |-> TRUE, minutesLeft |-> 0, map |-> MapSet(m, ip, FreshRecord(t))]
  ELSE IF data.count >= MAX_ATTEMPTS
  THEN [allowed |-> FALSE, minutesLeft |-> 30,
        map |-> MapSet(m, ip, [data EXCEPT !.lockedUntil = t + LOCKOUT_MS])]
  ELSE [allowed |-> TRUE, minutesLeft |-> 0, map |-> m]

\* a failure that is counted twice
recordFailedAttemptTwice(m, ip, t) ==
  LET data == MapGet(m, ip, FreshRecord(t)) IN
  MapSet(m, ip, [data EXCEPT !.count = data.count + 2])

recordFailedAttempt(m, ip, t) ==
  LET data == MapGet(m, ip, FreshRecord(t)) IN
  MapSet(m, ip, [data EXCEPT !.count = data.count + 1])

\* a clear that empties the whole map
clearAttemptsAll(m, ip) == [x \in {} |-> FreshRecord(0)]
clearAttempts(m, ip) == MapDelete(m, ip)

\* -------------------------------------------------------------------- auth
\* a gate that only looks for the header
requireAdminHeaderOnly(token) == token # NoToken
\* a gate that accepts every token login has ever returned
requireAdminEverIssued(token) == token # NoToken /\ token < nextToken
\* requireAdmin: next() is called iff the header is present and registered
requireAdmin(token) == token # NoToken /\ token \in activeSessions

\* !password || password !== ADMIN_PASSWORD
WrongPassword(password) ==
  password = NoPassword \/ password = "" \/ password # ADMIN_PASSWORD

\* POST /api/login
Login(p, ip, password) ==
  /\ req[p].pc = "idle"
  /\ LET rl == checkRateLimit(loginAttempts, ip, now) IN
     IF ~rl.allowed
     THEN /\ loginAttempts' = rl.map
          /\ req' = Answer(p, "login", 0, 429, rl.minutesLeft)
          /\ UNCHANGED <<activeSessions, nextToken>>
     ELSE IF WrongPassword(password)
     THEN LET m == recordFailedAttempt(rl.map, ip, now)
              left == MAX_ATTEMPTS - m[ip].count
          IN /\ loginAttempts' = m
             /\ req' = Answer(p, "login", 0, 401, left)
             /\ UNCHANGED <<activeSessions, nextToken>>
     ELSE /\ nextToken <= MaxTokens
          /\ loginAttempts' = clearAttempts(rl.map, ip)
          /\ activeSessions' = activeSessions \cup {nextToken}
          /\ nextToken' = nextToken + 1
          /\ req' = Answer(p, "login", 0, 200, nextToken)
  /\ UNCHANGED <<now, dbVars>>

\* POST /api/logout (behind requireAdmin)
Logout(p, token) ==
  /\ req[p].pc = "idle"
  /\ IF ~requireAdmin(token)
     THEN /\ req' = Answer(p, "logout", 0, 401, 0)
          /\ UNCHANGED activeSessions
     ELSE /\ activeSessions' = activeSessions \ {token}
          /\ req' = Answer(p, "logout", 0, 200, 0)
  /\ UNCHANGED <<now, loginAttempts, nextToken, dbVars>>

\* time passes
Tick(limit) ==
  /\ now < limit * TickMs
  /\ now' = now + TickMs
  /\ UNCHANGED <<authVars, dbVars, req>>

\* ------------------------------------------------------------------- store
ON_HOLD == Str(<<"o", "n", "_", "h", "o", "l", "d">>)

\* The row INSERT INTO suppliers (name, product, note, est_delivery) makes of
\* [name.trim(), product.trim(), note.trim(), est_delivery || null]; status and
\* added_at take the column defaults.
SupplierRow(body, t) ==
  [name |-> trim(body.name),
   product |-> trim(body.product),
   status |-> ON_HOLD,
   note |-> trim(Default(body.note, Str(<<>>))),
   est_delivery |-> OrNull(Default(body.est_delivery, Null)),
   added_at |-> t]

\* an UPDATE that treats est_delivery with ?? like the other fields
UpdatedRowEstCoalesce(row, body, s) ==
  [row EXCEPT
     !.name = Coalesce(body.name, s.name),
     !.product = Coalesce(body.product, s.product),
     !.note = Coalesce(body.note, s.note),
     !.est_delivery = Coalesce(body.est_delivery, s.est_delivery),
     !.status = Coalesce(body.status, s.status)]

\* an UPDATE that writes the request's fields as they came
UpdatedRowAsSent(row, body, s) ==
  [row EXCEPT
     !.name = body.name,
     !.product = body.product,
     !.note = body.note,
     !.est_delivery = OrNull(body.est_delivery),
     !.status = body.status]

\* The row UPDATE suppliers SET name=$1,product=$2,note=$3,est_delivery=$4,status=$5
\* leaves, for the row s the handler read
UpdatedRow(row, body, s) ==
  [row EXCEPT
     !.name = Coalesce(body.name, s.name),
     !.product = Coalesce(body.product, s.product),
     !.note = Coalesce(body.note, s.note),
     !.est_delivery = IF body.est_delivery # Undefined
                      THEN OrNull(body.est_delivery) ELSE s.est_delivery,
     !.status = Coalesce(body.status, s.status)]

\* a history row whose added_at is regenerated instead of copied
HistoryRowNewAddedAt(s, t) ==
  [name |-> s.name, product |-> s.product, note |-> s.note,
   est_delivery |-> s.est_delivery, added_at |-> t, delivered_at |-> t]

\* The row INSERT INTO delivery_history (name,product,note,est_delivery,added_at)
\* makes of s; delivered_at takes the column default NOW().
HistoryRow(s, t) ==
  [name |-> s.name, product |-> s.product, note |-> s.note,
   est_delivery |-> s.est_delivery, added_at |-> s.added_at, delivered_at |-> t]

Awaiting(pcs) == {q \in InFlight : req[q].pc \in pcs}

\* GET /api/admin/suppliers
ListStart(p, token) ==
  /\ req[p].pc = "idle"
  /\ req' = IF ~requireAdmin(token)
            THEN Answer(p, "list", 0, 401, 0)
            ELSE Begin(p, "list", "list_select", 0, NoBody)
  /\ UNCHANGED <<now, authVars, dbVars>>

ListSelect(p) ==
  /\ req[p].pc = "list_select"
  /\ req' = Finish(p, 200, Cardinality(DOMAIN suppliers))
  /\ UNCHANGED <<now, authVars, dbVars>>

\* POST /api/admin/suppliers
AddStart(p, token, body) ==
  /\ req[p].pc = "idle"
  /\ IF ~requireAdmin(token)
     THEN req' = Answer(p, "add", 0, 401, 0)
     ELSE IF ~Truthy(body.name) \/ ~Truthy(body.product)
     THEN req' = Answer(p, "add", 0, 400, 0)
     ELSE IF Default(body.note, Str(<<>>)).t # "string"
     THEN req' = Answer(p, "add", 0, 500, 0)  \* note.trim() throws inside the try
     ELSE /\ nextSupplierId + Cardinality(Awaiting({"add_insert"})) <= MaxSuppliers
          /\ req' = Begin(p, "add", "add_insert", 0, body)
  /\ UNCHANGED <<now, authVars, dbVars>>

AddInsert(p) ==
  /\ req[p].pc = "add_insert"
  /\ suppliers' = MapSet(suppliers, nextSupplierId, SupplierRow(req[p].body, now))
  /\ nextSupplierId' = nextSupplierId + 1
  /\ req' = Finish(p, 200, nextSupplierId)
  /\ UNCHANGED <<now, authVars, delivery_history, nextHistoryId, archivedOf, annVars>>

\* PATCH /api/admin/suppliers/:id
UpdStart(p, token, id, body) ==
  /\ req[p].pc = "idle"
  /\ req' = IF ~requireAdmin(token)
            THEN Answer(p, "update", id, 401, 0)
            ELSE Begin(p, "update", "upd_select", id, body)
  /\ UNCHANGED <<now, authVars, dbVars>>

UpdSelect(p) ==
  /\ req[p].pc = "upd_select"
  /\ req' = IF req[p].id \notin DOMAIN suppliers
            THEN Finish(p, 404, 0)
            ELSE [req EXCEPT ![p].s = suppliers[req[p].id], ![p].pc = "upd_update"]
  /\ UNCHANGED <<now, authVars, dbVars>>

UpdUpdate(p) ==
  /\ req[p].pc = "upd_update"
  /\ suppliers' = IF req[p].id \in DOMAIN suppliers
                  THEN [suppliers EXCEPT ![req[p].id] = UpdatedRow(@, req[p].body, req[p].s)]
                  ELSE suppliers
  /\ req' = Finish(p, 200, 0)
  /\ UNCHANGED <<now, authVars, nextSupplierId, delivery_history, nextHistoryId, archivedOf, annVars>>

\* DELETE /api/admin/suppliers/:id
DelStart(p, token, id) ==
  /\ req[p].pc = "idle"
  /\ IF ~requireAdmin(token)
     THEN req' = Answer(p, "delete", id, 401, 0)
     ELSE /\ nextHistoryId + Cardinality(Awaiting({"del_select", "del_insert"})) <= MaxHistory
          /\ req' = Begin(p, "delete", "del_select", id, NoBody)
  /\ UNCHANGED <<now, authVars, dbVars>>

\* a SELECT step that skips the rows.length check
DelSelectNoCheck(p) ==
  /\ req[p].pc = "del_select"
  /\ req' = [req EXCEPT ![p].s = MapGet(suppliers, req[p].id, NoRow), ![p].pc = "del_insert"]
  /\ UNCHANGED <<now, authVars, dbVars>>

DelSelect(p) ==
  /\ req[p].pc = "del_select"
  /\ req' = IF req[p].id \notin DOMAIN suppliers
            THEN Finish(p, 404, 0)
            ELSE [req EXCEPT ![p].s = suppliers[req[p].id], ![p].pc = "del_insert"]
  /\ UNCHANGED <<now, authVars, dbVars>>

DelInsert(p) ==
  /\ req[p].pc = "del_insert"
  /\ delivery_history' = MapSet(delivery_history, nextHistoryId, HistoryRow(req[p].s, now))
  /\ archivedOf' = MapSet(archivedOf, nextHistoryId, req[p].id)
  /\ nextHistoryId' = nextHistoryId + 1
  /\ req' = Await(p, "del_delete")
  /\ UNCHANGED <<now, authVars, suppliers, nextSupplierId, annVars>>

DelDelete(p) ==
  /\ req[p].pc = "del_delete"
  /\ suppliers' = MapDelete(suppliers, req[p].id)
  /\ req' = Finish(p, 200, 0)
  /\ UNCHANGED <<now, authVars, nextSupplierId, delivery_history, nextHistoryId, archivedOf, annVars>>

\* DELETE /api/admin/history/:id
HistDelStart(p, token, id) ==
  /\ req[p].pc = "idle"
  /\ req' = IF ~requireAdmin(token)
            THEN Answer(p, "hist_delete", id, 401, 0)
            ELSE Begin(p, "hist_delete", "hist_delete", id, NoBody)
  /\ UNCHANGED <<now, authVars, dbVars>>

HistDelete(p) ==
  /\ req[p].pc = "hist_delete"
  /\ delivery_history' = MapDelete(delivery_history, req[p].id)
  /\ req' = Finish(p, 200, 0)
  /\ UNCHANGED <<now, authVars, suppliers, nextSupplierId, nextHistoryId, archivedOf, annVars>>

\* GET /api/admin/history: ... ORDER BY delivered_at DESC LIMIT 100
HistListStart(p, token) ==
  /\ req[p].pc = "idle"
  /\ req' = IF ~requireAdmin(token)
            THEN Answer(p, "hist_list", 0, 401, 0)
            ELSE Begin(p, "hist_list", "hist_select", 0, NoBody)
  /\ UNCHANGED <<now, authVars, dbVars>>

HistListSelect(p) ==
  /\ req[p].pc = "hist_select"
  /\ LET n == Cardinality(DOMAIN delivery_history)
     IN req' = Finish(p, 200, IF n > 100 THEN 100 ELSE n)
  /\ UNCHANGED <<now, authVars, dbVars>>

\* GET /api/admin/announcements
AnnListStart(p, token) ==
  /\ req[p].pc = "idle"
  /\ req' = IF ~requireAdmin(token)
            THEN Answer(p, "ann_list", 0, 401, 0)
            ELSE Begin(p, "ann_list", "ann_select", 0, NoBody)
  /\ UNCHANGED <<now, authVars, dbVars>>

AnnListSelect(p) ==
  /\ req[p].pc = "ann_select"
  /\ req' = Finish(p, 200, Cardinality(DOMAIN announcements))
  /\ UNCHANGED <<now, authVars, dbVars>>

\* POST /api/admin/announcements
AnnAddStart(p, token, body) ==
  /\ req[p].pc = "idle"
  /\ IF ~requireAdmin(token)
     THEN req' = Answer(p, "ann_add", 0, 401, 0)
     ELSE IF ~Truthy(body.message)
     THEN req' = Answer(p, "ann_add", 0, 400, 0)
     ELSE /\ nextAnnouncementId + Cardinality(Awaiting({"ann_insert"})) <= MaxAnnouncements
          /\ req' = Begin(p, "ann_add", "ann_insert", 0, body)
  /\ UNCHANGED <<now, authVars, dbVars>>

\* INSERT INTO announcements (message) VALUES (message.trim()); active and
\* created_at take the column defaults.
AnnInsert(p) ==
  /\ req[p].pc = "ann_insert"
  /\ announcements' = MapSet(announcements, nextAnnouncementId,
                             [message |-> trim(req[p].body.message), active |-> TRUE,
                              created_at |-> now])
  /\ nextAnnouncementId' = nextAnnouncementId + 1
  /\ req' = Finish(p, 200, nextAnnouncementId)
  /\ UNCHANGED <<now, authVars, suppliers, nextSupplierId, delivery_history,
                 nextHistoryId, archivedOf>>

\* PATCH /api/admin/announcements/:id
AnnUpdStart(p, token, id, body) ==
  /\ req[p].pc = "idle"
  /\ req' = IF ~requireAdmin(token)
            THEN Answer(p, "ann_update", id, 401, 0)
            ELSE IF body.active.t # "undefined"
            THEN Begin(p, "ann_update", "ann_set_active", id, body)
            ELSE IF body.message.t # "undefined"
            THEN Begin(p, "ann_update", "ann_set_message", id, body)
            ELSE Answer(p, "ann_update", id, 200, 0)
  /\ UNCHANGED <<now, authVars, dbVars>>

\* UPDATE announcements SET active=$1 WHERE id=$2
AnnSetActive(p) ==
  /\ req[p].pc = "ann_set_active"
  /\ announcements' = IF req[p].id \in DOMAIN announcements
                      THEN [announcements EXCEPT ![req[p].id].active = req[p].body.active.v[1]]
                      ELSE announcements
  /\ req' = IF req[p].body.message.t # "undefined"
            THEN Await(p, "ann_set_message")
            ELSE Finish(p, 200, 0)
  /\ UNCHANGED <<now, authVars, suppliers, nextSupplierId, delivery_history,
                 nextHistoryId, archivedOf, nextAnnouncementId>>

\* UPDATE announcements SET message=$1 WHERE id=$2
AnnSetMessage(p) ==
  /\ req[p].pc = "ann_set_message"
  /\ announcements' = IF req[p].id \in DOMAIN announcements
                      THEN [announcements EXCEPT ![req[p].id].message = req[p].body.message]
                      ELSE announcements
  /\ req' = Finish(p, 200, 0)
  /\ UNCHANGED <<now, authVars, suppliers, nextSupplierId, delivery_history,
                 nextHistoryId, archivedOf, nextAnnouncementId>>

\* DELETE /api/admin/announcements/:id
AnnDelStart(p, token, id) ==
  /\ req[p].pc = "idle"
  /\ req' = IF ~requireAdmin(token)
            THEN Answer(p, "ann_delete", id, 401, 0)
            ELSE Begin(p, "ann_delete", "ann_delete", id, NoBody)
  /\ UNCHANGED <<now, authVars, dbVars>>

AnnDelete(p) ==
  /\ req[p].pc = "ann_delete"
  /\ announcements' = MapDelete(announcements, req[p].id)
  /\ req' = Finish(p, 200, 0)
  /\ UNCHANGED <<now, authVars, suppliers, nextSupplierId, delivery_history,
                 nextHistoryId, archivedOf, nextAnnouncementId>>

\* The awaited query rejects: catch (err) { res.status(500)... }
QueryFails(p) ==
  /\ req[p].pc # "idle"
  /\ req' = Finish(p, 500, 0)
  /\ UNCHANGED <<now, authVars, dbVars>>

Init ==
  /\ now = 0
  /\ loginAttempts = [x \in {} |-> FreshRecord(0)]
  /\ activeSessions = {}
  /\ nextToken = 1
  /\ suppliers = [x \in {} |-> NoRow]
  /\ nextSupplierId = 1
  /\ delivery_history = [x \in {} |-> NoRow]
  /\ nextHistoryId = 1
  /\ archivedOf = [x \in {} |-> 0]
  /\ announcements = [x \in {} |-> NoAnnouncement]
  /\ nextAnnouncementId = 1
  /\ req = [p \in Procs |-> IdleReq]

\* ------------------------------------------------------------ specifications
\* Logins from two addresses while time passes.
NextLimiter ==
  \/ Tick(MaxTicks)
  \/ \E ip \in IPs, pw \in Passwords : Login("p1", ip, pw)

SpecLimiter == Init /\ [][NextLimiter]_vars

\* Login, logout and a guarded route.
NextSession ==
  \/ \E pw \in Passwords : Login("p1", "ip1", pw)
  \/ \E tok \in TokenValues : Logout("p1", tok)
  \/ \E p \in Procs, tok \in TokenValues : ListStart(p, tok)
  \/ \E p \in Procs : ListSelect(p)

SpecSession == Init /\ [][NextSession]_vars

\* The store handlers start from a state with one admin logged in.
InitStore ==
  /\ now = 0
  /\ loginAttempts = [x \in {} |-> FreshRecord(0)]
  /\ activeSessions = {1}
  /\ nextToken = 2
  /\ suppliers = [x \in {} |-> NoRow]
  /\ nextSupplierId = 1
  /\ delivery_history = [x \in {} |-> NoRow]
  /\ nextHistoryId = 1
  /\ archivedOf = [x \in {} |-> 0]
  /\ announcements = [x \in {} |-> NoAnnouncement]
  /\ nextAnnouncementId = 1
  /\ req = [p \in Procs |-> IdleReq]

\* Request bodies of the sequential runs
AddBodies ==
  {[NoBody EXCEPT !.name = Str(<<" ", "a", " ">>), !.product = Str(<<"b">>)],
   [NoBody EXCEPT !.name = Str(<<" ">>), !.product = Str(<<"b">>)],
   [NoBody EXCEPT !.name = Str(<<"a">>), !.product = Str(<<" ">>), !.est_delivery = Str(<<"d">>)],
   [NoBody EXCEPT !.name = Str(<<>>), !.product = Str(<<"b">>)],
   [NoBody EXCEPT !.name = Str(<<"a">>)],
   [NoBody EXCEPT !.name = Str(<<"a">>), !.product = Str(<<"b">>), !.note = Null]}
UpdBodies ==
  {[NoBody EXCEPT !.status = Str(<<"s">>)],
   [NoBody EXCEPT !.name = Str(<<>>)],
   [NoBody EXCEPT !.product = Null, !.name = Str(<<"c">>)]}

\* One request at a time, with the store's failures.
NextSeq ==
  \/ \E tok \in {NoToken, 1}, body \in AddBodies : AddStart("p1", tok, body)
  \/ AddInsert("p1")
  \/ \E tok \in {NoToken, 1}, id \in SupplierIds, body \in UpdBodies : UpdStart("p1", tok, id, body)
  \/ UpdSelect("p1")
  \/ UpdUpdate("p1")
  \/ QueryFails("p1")

SpecSeq == InitStore /\ [][NextSeq]_vars

\* Request bodies of the concurrent runs
ConcAddBodies == {[NoBody EXCEPT !.name = Str(<<"a">>), !.product = Str(<<"b">>)]}

\* Two requests in flight together, with the store's failures.
NextConc ==
  \/ Tick(MaxStoreTicks)
  \/ \E p \in Procs :
       \/ \E body \in ConcAddBodies : AddStart(p, 1, body)
       \/ AddInsert(p)
       \/ \E id \in SupplierIds : DelStart(p, 1, id)
       \/ DelSelect(p)
       \/ DelInsert(p)
       \/ DelDelete(p)
       \/ QueryFails(p)

SpecConc == InitStore /\ [][NextConc]_vars

\* Request bodies of the concurrent updates: the first slot never sends a
\* note, the second sends nothing else.
UpdBodiesOf(p) ==
  IF p = "p1"
  THEN {[NoBody EXCEPT !.status = Str(<<"s">>)],
        [NoBody EXCEPT !.est_delivery = Str(<<>>)],
        [NoBody EXCEPT !.est_delivery = Str(<<"d">>)]}
  ELSE {[NoBody EXCEPT !.note = Str(<<"n">>)]}

\* Adds and updates in flight together, with the store's failures.
NextUpd ==
  \/ \E body \in ConcAddBodies : AddStart("p1", 1, body)
  \/ AddInsert("p1")
  \/ \E p \in Procs :
    \/ \E id \in SupplierIds, body \in UpdBodiesOf(p) : UpdStart(p, 1, id, body)
    \/ UpdSelect(p)
    \/ UpdUpdate(p)
    \/ QueryFails(p)

SpecUpd == InitStore /\ [][NextUpd]_vars

\* Request bodies of the est_delivery runs: a supplier with and one without
\* an est_delivery; updates that send it empty, null, non-empty, or not at all
EstAddBodies ==
  {[NoBody EXCEPT !.name = Str(<<"a">>), !.product = Str(<<"b">>), !.est_delivery = Str(<<"d">>)],
   [NoBody EXCEPT !.name = Str(<<"b">>), !.product = Str(<<"b">>)]}
EstUpdBodies ==
  {[NoBody EXCEPT !.est_delivery = Str(<<>>)],
   [NoBody EXCEPT !.est_delivery = Null],
   [NoBody EXCEPT !.est_delivery = Str(<<"e">>)],
   [NoBody EXCEPT !.status = Str(<<"s">>)]}

\* Adds and updates, one request at a time, with the store's failures.
NextEst ==
  \/ \E body \in EstAddBodies : AddStart("p1", 1, body)
  \/ AddInsert("p1")
  \/ \E id \in SupplierIds, body \in EstUpdBodies : UpdStart("p1", 1, id, body)
  \/ UpdSelect("p1")
  \/ UpdUpdate("p1")
  \/ QueryFails("p1")

SpecEst == InitStore /\ [][NextEst]_vars

\* Supplier deletes and history deletes in flight together, with the store's
\* failures.
NextHist ==
  \E p \in Procs :
    \/ \E body \in ConcAddBodies : AddStart(p, 1, body)
    \/ AddInsert(p)
    \/ \E id \in SupplierIds : DelStart(p, 1, id)
    \/ DelSelect(p)
    \/ DelInsert(p)
    \/ DelDelete(p)
    \/ \E id \in HistoryIds : HistDelStart(p, 1, id)
    \/ HistDelete(p)
    \/ QueryFails(p)

SpecHist == InitStore /\ [][NextHist]_vars

\* Request bodies of the guarded routes
GateAddBodies == ConcAddBodies
GateUpdBodies == {NoBody}
AnnAddBodies == {[NoAnnBody EXCEPT !.message = Str(<<"m", " ">>)], NoAnnBody}
AnnUpdBodies == {[NoAnnBody EXCEPT !.active = Bool(FALSE), !.message = Str(<<"x">>)]}

\* A request to a route mounted behind requireAdmin arrives.
GuardedRequest(p, tok) ==
  \/ Logout(p, tok)
  \/ ListStart(p, tok)
  \/ \E body \in GateAddBodies : AddStart(p, tok, body)
  \/ \E id \in SupplierIds, body \in GateUpdBodies : UpdStart(p, tok, id, body)
  \/ \E id \in SupplierIds : DelStart(p, tok, id)
  \/ HistListStart(p, tok)
  \/ \E id \in HistoryIds : HistDelStart(p, tok, id)
  \/ AnnListStart(p, tok)
  \/ \E body \in AnnAddBodies : AnnAddStart(p, tok, body)
  \/ \E id \in AnnouncementIds, body \in AnnUpdBodies : AnnUpdStart(p, tok, id, body)
  \/ \E id \in AnnouncementIds : AnnDelStart(p, tok, id)

\* The query a handler awaits completes.
QueryCompletes(p) ==
  \/ ListSelect(p)
  \/ AddInsert(p)
  \/ UpdSelect(p)
  \/ UpdUpdate(p)
  \/ DelSelect(p)
  \/ DelInsert(p)
  \/ DelDelete(p)
  \/ HistListSelect(p)
  \/ HistDelete(p)
  \/ AnnListSelect(p)
  \/ AnnInsert(p)
  \/ AnnSetActive(p)
  \/ AnnSetMessage(p)
  \/ AnnDelete(p)

\* Every guarded route, one request at a time, with any token header; no query fails.
NextGate ==
  \/ \E tok \in TokenValues : GuardedRequest("p1", tok)
  \/ QueryCompletes("p1")

SpecGate == InitStore /\ [][NextGate]_vars

\* ------------------------------------------------------------------ claims
\* Wrong-password attempts the limiter still lets through for ip at time t
Remaining(m, ip, t) ==
  LET data == MapGet(m, ip, FreshRecord(t)) IN
  IF data.lockedUntil # 0 /\ t < data.lockedUntil THEN 0
  ELSE IF t - data.firstAttempt > WINDOW_MS THEN MAX_ATTEMPTS
  ELSE IF data.count >= MAX_ATTEMPTS THEN 0
  ELSE MAX_ATTEMPTS - data.count

\* C1: once 5 wrong-password logins of an IP have been rejected within one
\* 15-minute span, every login from that IP less than 30 minutes after the 5th
\* failure is answered 429.  A record with count >= 5 holds 5 failures, all
\* rejected at or after firstAttempt and within the window anchored there, so
\* an attempt at now < firstAttempt + 30 min comes less than 30 minutes after
\* the 5th of them.
C1_SixthAttemptRateLimited ==
  [][\A ip \in IPs, pw \in Passwords :
       ( /\ Login("p1", ip, pw)
         /\ ip \in DOMAIN loginAttempts
         /\ loginAttempts[ip].count >= MAX_ATTEMPTS
         /\ now - loginAttempts[ip].firstAttempt < LOCKOUT_MS )
       => req'["p1"].status = 429]_vars

\* C2: a login carrying the admin password succeeds in every rate-limit state
\* of its IP: it is answered 200 with a token that was not registered and now
\* is, and the IP's rate-limit record is gone.
C2_RightPasswordAlwaysSucceeds ==
  [][\A ip \in IPs :
       Login("p1", ip, ADMIN_PASSWORD)
       => /\ req'["p1"].status = 200
          /\ req'["p1"].out \notin activeSessions
          /\ req'["p1"].out \in activeSessions'
          /\ ip \notin DOMAIN loginAttempts']_vars

\* C6: a token is in the registry exactly when a successful login returned it
\* and no logout of it followed; the gate answers 401 exactly to the tokens
\* not in the registry; a token that has left the registry never returns.
C6_TokenValidIffRegistered ==
  [][ /\ activeSessions' \subseteq 1 .. (nextToken' - 1)
      /\ \A t \in 1 .. MaxTokens :
           /\ (t \notin activeSessions /\ t \in activeSessions')
                => /\ t = nextToken
                   /\ \E p \in Procs : /\ req'[p].op = "login" /\ req'[p].status = 200
                                       /\ req'[p].out = t
           /\ (t \in activeSessions /\ t \notin activeSessions')
                => \E p \in Procs : Logout(p, t)
           /\ (t < nextToken /\ t \notin activeSessions) => t \notin activeSessions'
      /\ \A p \in Procs :
           /\ \A pw \in Passwords :
                (Login(p, "ip1", pw) /\ req'[p].status = 200)
                  => req'[p].out \in activeSessions'
           /\ \A tok \in TokenValues :
                /\ Logout(p, tok)
                     => /\ tok \notin activeSessions'
                        /\ (req'[p].status = 401) <=> (tok \notin activeSessions)
                /\ ListStart(p, tok)
                     => (req'[p].status = 401) <=> (tok \notin activeSessions) ]_vars

\* C6 witness: token 1 was returned and logged out, token 2 is registered, and
\* a guarded route has answered 401.
C6_Witness ==
  /\ nextToken = 3 /\ activeSessions = {2}
  /\ req["p1"].op = "list" /\ req["p1"].status = 401

\* C10: a successful login removes the IP's record, which gives the IP its 5
\* wrong-password attempts back: while attempts remain a wrong password is
\* answered 401 and costs at most one of them; a login leaves the records of
\* the other IPs as they were, only logins change the map, and the passing of
\* time takes no attempt away.
C10_SuccessClearsOnlyOwnRecord ==
  [][ /\ \A ip \in IPs, pw \in Passwords :
           Login("p1", ip, pw) =>
             /\ req'["p1"].status = 200
                  => /\ ip \notin DOMAIN loginAttempts'
                     /\ Remaining(loginAttempts', ip, now') = MAX_ATTEMPTS
             /\ (WrongPassword(pw) /\ Remaining(loginAttempts, ip, now) > 0)
                  => /\ req'["p1"].status = 401
                     /\ Remaining(loginAttempts', ip, now')
                          >= Remaining(loginAttempts, ip, now) - 1
             /\ \A other \in IPs \ {ip} :
                  /\ other \in DOMAIN loginAttempts' <=> other \in DOMAIN loginAttempts
                  /\ other \in DOMAIN loginAttempts
                       => loginAttempts'[other] = loginAttempts[other]
      /\ loginAttempts' # loginAttempts => req'["p1"].op = "login"
      /\ loginAttempts' = loginAttempts
           => \A ip \in IPs : Remaining(loginAttempts', ip, now')
                                >= Remaining(loginAttempts, ip, now) ]_vars

\* C10 witness: a login has just succeeded, its IP has no record, and the
\* other IP's record with its failures is still there.
C10_Witness ==
  /\ req["p1"].op = "login" /\ req["p1"].status = 200
  /\ "ip1" \notin DOMAIN loginAttempts
  /\ "ip2" \in DOMAIN loginAttempts /\ loginAttempts["ip2"].count = 3

\* The supplier ids with a delivery_history row copied from them: now in the
\* table, and ever inserted.
InHistory(id) == \E h \in DOMAIN delivery_history : archivedOf[h] = id
Archived(id) == \E h \in DOMAIN archivedOf : archivedOf[h] = id
EverAssigned == 1 .. (nextSupplierId - 1)

\* C3: of two supplier deletes of the same id that were in flight together
\* (and neither met a store failure), exactly one is answered 200 and the
\* other 404: when one has been answered 200 the other is answered 404.
C3_ConcurrentDeletesOneWins ==
  \A p \in Procs : \A q \in Procs \ {p} :
    ( /\ req[p].pc = "idle" /\ req[q].pc = "idle"
      /\ req[p].op = "delete" /\ req[q].op = "delete"
      /\ req[p].id = req[q].id
      /\ q \in req[p].rivals /\ p \in req[q].rivals
      /\ req[p].status = 200 /\ req[q].status # 500 )
    => req[q].status = 404

\* C4: in no state, those between the queries of a delete in flight included,
\* is a supplier's record both in suppliers and in delivery_history, and none
\* that was ever stored is in suppliers no more without having been archived.
C4_DeleteAtomicForReaders ==
  \A id \in EverAssigned :
    /\ ~(id \in DOMAIN suppliers /\ InHistory(id))
    /\ (id \in DOMAIN suppliers \/ Archived(id))

\* C5: when no supplier delete is in flight, the history rows ever inserted
\* are as many as the supplier rows ever removed, every removed supplier has
\* exactly one, and no supplier still in the table has any.
C5_HistoryOneToOne ==
  (\A p \in InFlight : req[p].op # "delete")
  => /\ nextHistoryId - 1 = (nextSupplierId - 1) - Cardinality(DOMAIN suppliers)
     /\ \A id \in EverAssigned \ DOMAIN suppliers :
          Cardinality({h \in DOMAIN archivedOf : archivedOf[h] = id}) = 1
     /\ \A id \in DOMAIN suppliers : ~Archived(id)

\* C7: every row of suppliers has a name and a product that are non-empty
\* after trimming.
C7_NameAndProductNonEmpty ==
  \A id \in DOMAIN suppliers :
    /\ trim(suppliers[id].name).v # <<>>
    /\ trim(suppliers[id].product).v # <<>>

\* no other request on the same supplier id has been in flight with p's
Solo(p) == req[p].rivals = {}

\* C8: a delete of an existing supplier S, alone on its id and without store
\* failure: its INSERT adds exactly one history row, carrying S's stored
\* name, product, note, est_delivery and added_at and a delivered_at not
\* before the call, and changes nothing else; its DELETE removes S's row
\* and only that row, leaves the history alone, and is answered 200; its
\* SELECT changes no table.
C8_DeleteArchivesThenRemoves ==
  [][\A p \in Procs :
       /\ (DelSelect(p) /\ Solo(p)) => UNCHANGED dbVars
       /\ (DelInsert(p) /\ Solo(p)) =>
            /\ req[p].id \in DOMAIN suppliers
            /\ suppliers' = suppliers
            /\ \E h \in DOMAIN delivery_history' \ DOMAIN delivery_history :
                 LET e == delivery_history'[h]
                     S == suppliers[req[p].id]
                 IN /\ DOMAIN delivery_history' = DOMAIN delivery_history \cup {h}
                    /\ e.name = S.name /\ e.product = S.product /\ e.note = S.note
                    /\ e.est_delivery = S.est_delivery /\ e.added_at = S.added_at
                    /\ e.delivered_at >= req[p].t0
            /\ \A h \in DOMAIN delivery_history :
                 delivery_history'[h] = delivery_history[h]
       /\ (DelDelete(p) /\ Solo(p)) =>
            /\ Archived(req[p].id)
            /\ DOMAIN suppliers' = DOMAIN suppliers \ {req[p].id}
            /\ \A other \in DOMAIN suppliers' : suppliers'[other] = suppliers[other]
            /\ delivery_history' = delivery_history
            /\ req'[p].status = 200 ]_vars

\* C8 witness: a delete that was alone on its id has been answered 200; its
\* supplier is gone, its history row was delivered after the supplier was
\* added, and another supplier is still in the table.
C8_Witness ==
  \E p \in Procs :
    /\ req[p].pc = "idle" /\ req[p].op = "delete" /\ req[p].status = 200
    /\ Solo(p)
    /\ req[p].id \notin DOMAIN suppliers
    /\ DOMAIN suppliers # {}
    /\ \E h \in DOMAIN delivery_history :
         /\ archivedOf[h] = req[p].id
         /\ delivery_history[h].delivered_at > delivery_history[h].added_at

\* C9: a delete whose SELECT finds no row of that id is answered 404, ends
\* there, and changes no table; neither does a delete whose query fails.
C9_DeleteMissingIsNotFound ==
  [][\A p \in Procs :
       /\ (DelSelect(p) /\ req[p].id \notin DOMAIN suppliers) =>
            /\ req'[p].status = 404 /\ req'[p].pc = "idle"
            /\ UNCHANGED dbVars
       /\ (req[p].op = "delete" /\ QueryFails(p)) => UNCHANGED dbVars ]_vars

\* C9 witness: a delete of an id that is not in the table has been answered
\* 404 while another supplier and a history row exist.
C9_Witness ==
  \E p \in Procs :
    /\ req[p].pc = "idle" /\ req[p].op = "delete" /\ req[p].status = 404
    /\ req[p].id \notin DOMAIN suppliers
    /\ DOMAIN suppliers # {} /\ DOMAIN delivery_history # {}

\* C11: a logout carrying a token that is not, or no longer, in the registry
\* is answered like the first logout of that token was, 200 ok, and leaves
\* the registry as it was.
C11_LogoutIdempotent ==
  [][\A tok \in TokenValues \ {NoToken} :
       (Logout("p1", tok) /\ tok \notin activeSessions)
       => /\ req'["p1"].status = 200
          /\ activeSessions' = activeSessions]_vars

\* the fields of a PATCH /api/admin/suppliers/:id body
Fields == {"name", "product", "note", "est_delivery", "status"}

\* C12: the UPDATE of a supplier update that was alone on its id keeps every
\* field absent from the request at its stored value, gives name, product,
\* note and status the string the request carries, keeps added_at and the
\* set of ids, leaves every other row as it was, and is answered 200; the
\* update's SELECT and its failures change no table.
C12_UpdateChangesOnlySentFields ==
  [][\A p \in Procs :
       /\ (UpdUpdate(p) /\ Solo(p)) =>
            LET id == req[p].id
                body == req[p].body
            IN /\ id \in DOMAIN suppliers
               /\ DOMAIN suppliers' = DOMAIN suppliers
               /\ \A other \in DOMAIN suppliers \ {id} : suppliers'[other] = suppliers[other]
               /\ suppliers'[id].added_at = suppliers[id].added_at
               /\ \A f \in Fields :
                    /\ body[f] = Undefined => suppliers'[id][f] = suppliers[id][f]
                    /\ (f # "est_delivery" /\ body[f].t = "string")
                         => suppliers'[id][f] = body[f]
               /\ req'[p].status = 200
       /\ UpdSelect(p) => UNCHANGED dbVars
       /\ (req[p].op = "update" /\ QueryFails(p)) => UNCHANGED dbVars ]_vars

\* C12 witness: an update of the status alone, alone on its id, has been
\* answered 200; its row has the new status and the name, product, note and
\* est_delivery it was added with, and the other row still has its status.
C12_Witness ==
  \E p \in Procs :
    /\ req[p].pc = "idle" /\ req[p].op = "update" /\ req[p].status = 200
    /\ Solo(p)
    /\ req[p].id \in DOMAIN suppliers
    /\ suppliers[req[p].id] =
         [SupplierRow([NoBody EXCEPT !.name = Str(<<"a">>), !.product = Str(<<"b">>)], 0)
            EXCEPT !.status = Str(<<"s">>)]
    /\ \E other \in DOMAIN suppliers \ {req[p].id} : suppliers[other].status = ON_HOLD

\* C13: a request to a route behind the gate (every /api/admin/* route and
\* logout) whose token is missing or not in the registry is answered 401
\* without a query being issued, and leaves the suppliers, delivery_history
\* and announcements tables and the registry as they were: a step in which
\* a request arrives at a slot is such a refusal, or else it is not a request
\* to a guarded route with such a token.
C13_GateGuardsEveryAdminRoute ==
  [][\A p \in Procs :
       \/ req[p].pc # "idle" \/ req'[p] = req[p]
       \/ /\ req'[p].status = 401
          /\ req'[p].pc = "idle"
          /\ UNCHANGED dbVars
          /\ activeSessions' = activeSessions
       \/ \A tok \in TokenValues :
            (tok = NoToken \/ tok \notin activeSessions) => ~GuardedRequest(p, tok) ]_vars

\* C13 witness: after the admin's logout, with rows in all three tables, a
\* history delete carrying the old token has been answered 401.
C13_Witness ==
  /\ activeSessions = {}
  /\ DOMAIN suppliers # {} /\ DOMAIN delivery_history # {} /\ DOMAIN announcements # {}
  /\ req["p1"].pc = "idle" /\ req["p1"].op = "hist_delete" /\ req["p1"].status = 401

\* C14: deleting an id that is not there has the same kind of outcome in both
\* tables: a history delete of an id no history row ever had and a supplier
\* delete of an id no supplier ever had, both let through by the gate and
\* neither met by a store failure, are both answered 404 or both answered 200.
C14_AbsentDeletesAgree ==
  \A p \in Procs : \A q \in Procs \ {p} :
    ( /\ req[p].pc = "idle" /\ req[p].op = "hist_delete"
      /\ req[p].id \notin DOMAIN archivedOf
      /\ req[p].status \in {200, 404}
      /\ req[q].pc = "idle" /\ req[q].op = "delete"
      /\ req[q].id \notin EverAssigned
      /\ req[q].status \in {200, 404} )
    => req[p].status = req[q].status

\* C15: when an update that sets only the note (the second slot's) and an
\* update of the same id that sets no note (the first slot's) were in flight
\* together and both have been answered 200, the stored row carries the new
\* note: it was not lost to the other request writing back the note it read.
C15_NoLostUpdate ==
  ( /\ req["p1"].pc = "idle" /\ req["p2"].pc = "idle"
    /\ req["p1"].op = "update" /\ req["p2"].op = "update"
    /\ req["p1"].id = req["p2"].id
    /\ "p2" \in req["p1"].rivals /\ "p1" \in req["p2"].rivals
    /\ req["p1"].status = 200 /\ req["p2"].status = 200
    /\ req["p2"].id \in DOMAIN suppliers )
  => suppliers[req["p2"].id].note = Str(<<"n">>)

\* the record of ip holds a lockout deadline
Locked(m, ip) == ip \in DOMAIN m /\ m[ip].lockedUntil # 0

\* C16: a record with lockedUntil set has count >= 5, and while now is before
\* lockedUntil every login from that IP is answered 429 and leaves the
\* record's count, firstAttempt and lockedUntil as they were.
C16_LockoutExcludesCounting ==
  [][ /\ \A ip \in IPs :
           /\ Locked(loginAttempts, ip) => loginAttempts[ip].count >= MAX_ATTEMPTS
           /\ Locked(loginAttempts', ip) => loginAttempts'[ip].count >= MAX_ATTEMPTS
      /\ \A ip \in IPs, pw \in Passwords :
           ( /\ Locked(loginAttempts, ip)
             /\ now < loginAttempts[ip].lockedUntil
             /\ Login("p1", ip, pw) )
           => /\ req'["p1"].status = 429
              /\ ip \in DOMAIN loginAttempts'
              /\ loginAttempts'[ip] = loginAttempts[ip] ]_vars

\* C16 witness: a login made 7.5 minutes into a lockout has been answered 429
\* with 23 minutes left, and the record is as the lockout left it.
C16_Witness ==
  /\ req["p1"].op = "login" /\ req["p1"].status = 429 /\ req["p1"].out = 23
  /\ Locked(loginAttempts, "ip1")
  /\ loginAttempts["ip1"] = [count |-> MAX_ATTEMPTS, firstAttempt |-> 0,
                             lockedUntil |-> LOCKOUT_MS]
  /\ now = TickMs

\* C17: the failure count of every rate-limit record is between 0 and 5, and
\* the attempts-left number of every 401 answer of login is not below zero.
C17_CountWithinMaxAttempts ==
  /\ \A ip \in DOMAIN loginAttempts : loginAttempts[ip].count \in 0 .. MAX_ATTEMPTS
  /\ \A p \in Procs :
       (req[p].op = "login" /\ req[p].status = 401) => req[p].out \in 0 .. MAX_ATTEMPTS - 1

\* C17 witness: the fifth failure has just been recorded and answered with no
\* attempts left.
C17_Witness ==
  /\ req["p1"].op = "login" /\ req["p1"].status = 401 /\ req["p1"].out = 0
  /\ "ip1" \in DOMAIN loginAttempts /\ loginAttempts["ip1"].count = MAX_ATTEMPTS

\* C18: a login from an IP whose record holds a lockout deadline that has
\* been reached finds the window elapsed, is allowed by the limiter, which
\* resets the record to count 0, firstAttempt now, lockedUntil unset, and is
\* not answered 429: after a wrong password the record counts that one
\* failure from now, after the right one the record is gone.
C18_LockoutEnds ==
  [][\A ip \in IPs, pw \in Passwords :
       ( /\ Locked(loginAttempts, ip)
         /\ now >= loginAttempts[ip].lockedUntil
         /\ Login("p1", ip, pw) )
       => /\ now - loginAttempts[ip].firstAttempt > WINDOW_MS
          /\ checkRateLimit(loginAttempts, ip, now).allowed
          /\ checkRateLimit(loginAttempts, ip, now).map[ip] = FreshRecord(now)
          /\ req'["p1"].status \in {200, 401}
          /\ req'["p1"].status = 401
               => loginAttempts'[ip] = [FreshRecord(now) EXCEPT !.count = 1]
          /\ req'["p1"].status = 200 => ip \notin DOMAIN loginAttempts' ]_vars

\* C18 witness: an IP was locked out, its last login was refused during the
\* lockout, and the deadline has now been reached.
C18_Witness ==
  /\ Locked(loginAttempts, "ip1")
  /\ now >= loginAttempts["ip1"].lockedUntil
  /\ req["p1"].op = "login" /\ req["p1"].status = 429

====
